---- MODULE Spec2Model ----
(***************************************************************************)
(* Model of src/index.tsx: a single-page chat front end.  The module body  *)
(* checks the API key, creates a chat session, registers a submit handler  *)
(* and calls initializeChat().  Every `await` of the source is a           *)
(* suspension point: the continuation is queued as a microtask, and tasks  *)
(* of the event loop (user typing, a submit event, the settling of a       *)
(* network call) run only when the microtask queue is empty.               *)
(*                                                                         *)
(* Strings are sequences of tokens (a token is a character or an atomic    *)
(* word), so that trim() and marked.parse() are computed, not assumed.     *)
(* chat.sendMessage is an opaque remote call: it settles at any later      *)
(* task, with any reply or error, independently of other calls.            *)
(***************************************************************************)
EXTENDS Integers, Sequences, FiniteSets

\* ------------------------------------------------------------------ bounds
MaxSubmits == 2   \* non-empty submissions explored (user pipelines 1..MaxSubmits)

\* ------------------------------------------------------------- input sets
\* values the user types into the field: empty, blank, and a text with an inner
\* blank that trim() has to cut on the left or on the right
InputValues ==
  { <<>>, <<" ", " ">>, <<" ", "a", " ", "&">>, <<"a", " ", "&", " ">> }

Pids == 0 .. MaxSubmits
UserPids == 1 .. MaxSubmits

\* what the remote can answer: response.text is a string or undefined
Responses ==
  { [hasText |-> TRUE,  text |-> <<"&">>],
    [hasText |-> TRUE,  text |-> <<"**", "Hint 1:", "**", " ", "&">>],
    [hasText |-> FALSE, text |-> <<>>] }
NoResponse == [hasText |-> FALSE, text |-> <<>>]

\* what a rejected call can throw
Errors == { [name |-> "Error", message |-> "Network timeout"] }
NoError == [name |-> "", message |-> ""]
MarkedError == [name |-> "Error",
                message |-> "marked(): input parameter is undefined or null"]

\* ------------------------------------------------------- pure functions
\* String.prototype.trim
RECURSIVE trimStart(_)
trimStart(s) ==
  IF s = <<>> \/ Head(s) # " " THEN s ELSE trimStart(Tail(s))

RECURSIVE trimEnd(_)
trimEnd(s) ==
  IF s = <<>> \/ s[Len(s)] # " " THEN s ELSE trimEnd(SubSeq(s, 1, Len(s) - 1))

trim(s) == trimEnd(trimStart(s))

\* the token for three backquotes (a backquote cannot occur in a TLA+ string)
Backquotes == "[3 backquotes]"

\* the template substitution ${error}
errorString(error) == <<error.name, ": ", error.message>>

\* the two template literals
SubmitErrorText(error) ==
  <<"**", "Error:", "**", " Something went wrong. Please try again. ", "\n\n", Backquotes>>
    \o errorString(error) \o <<Backquotes>>

InitErrorText(error) ==
  <<"**", "Error:", "**", " Could not initialize chat. ", "\n\n", Backquotes>>
    \o errorString(error) \o <<Backquotes>>

\* marked: HTML escaping of one token
escape(tok) == IF tok = "&" THEN "&amp;" ELSE tok

\* marked: inline rendering of one block; st is "text", "strong" or "code"
RECURSIVE inline(_, _)
inline(t, st) ==
  IF t = <<>> THEN <<>>
  ELSE IF Head(t) = "**" /\ st = "text"   THEN <<"<strong>">>  \o inline(Tail(t), "strong")
  ELSE IF Head(t) = "**" /\ st = "strong" THEN <<"</strong>">> \o inline(Tail(t), "text")
  ELSE IF Head(t) = Backquotes /\ st = "text"  THEN <<"<code>">>    \o inline(Tail(t), "code")
  ELSE IF Head(t) = Backquotes /\ st = "code"  THEN <<"</code>">>   \o inline(Tail(t), "text")
  ELSE <<escape(Head(t))>> \o inline(Tail(t), st)

\* index of the first blank line ("\n\n") of t, 0 if none
RECURSIVE blankAt(_, _)
blankAt(t, i) ==
  IF i > Len(t) THEN 0 ELSE IF t[i] = "\n\n" THEN i ELSE blankAt(t, i + 1)

\* marked.parse on a string: one <p> per block, blocks separated by blank lines
RECURSIVE marked_parse(_)
marked_parse(text) ==
  IF text = <<>> THEN <<>>
  ELSE LET k == blankAt(text, 1)
       IN  IF k = 0
           THEN <<"<p>">> \o inline(text, "text") \o <<"</p>\n">>
           ELSE <<"<p>">> \o inline(SubSeq(text, 1, k - 1), "text") \o <<"</p>\n">>
                  \o marked_parse(SubSeq(text, k + 1, Len(text)))

\* ------------------------------------------------------------------ state
VARIABLES
  API_KEY,        \* process.env.API_KEY is set
  main,           \* module body: "start", "halted" (threw at line 23), "running"
  chat,           \* "uninitialized" or "created"
  submitListener, \* the submit handler of line 81 is registered
  messageList,    \* children of #message-list, in document order
  chatInput,      \* chatInput.value
  pipelines,      \* per pipeline: position and locals (0 = initializeChat)
  microtasks,     \* queue of suspended continuations ready to resume
  calls,          \* chat.sendMessage calls issued so far, in order
  console,        \* console.error output
  event           \* the task or microtask that produced this state

vars == <<API_KEY, main, chat, submitListener, messageList, chatInput,
          pipelines, microtasks, calls, console, event>>

\* Identity of an element: the pipeline whose code created it, and which of the
\* createElement calls of that pipeline did ("user", "loading", "reply", "error").
ModuleBody == 0 - 1
ElId(p, what) == <<p, what>>
NoEl == ElId(ModuleBody, "none")

IdlePipeline ==
  [pc |-> "idle", stage |-> "none", userInput |-> <<>>, loadingIndicator |-> NoEl,
   settled |-> "none", response |-> NoResponse, error |-> NoError,
   parsed |-> <<>>]

\* the markup assigned to messageList.innerHTML when the key is missing
ApiKeyErrorHtml ==
  <<"<p>", "<strong>", "Error:", "</strong>", " API_KEY environment variable not set.", "</p>",
    "<p>", "Please follow the instructions in the README to set up your API key.", "</p>">>

Init ==
  /\ API_KEY \in BOOLEAN
  /\ main = "start"
  /\ chat = "uninitialized"
  /\ submitListener = FALSE
  /\ messageList = <<>>
  /\ chatInput = <<>>
  /\ pipelines = [p \in Pids |-> IdlePipeline]
  /\ microtasks = <<>>
  /\ calls = <<>>
  /\ console = <<>>
  /\ event = "load"

\* ------------------------------------------------------- view operations
\* renderLoadingIndicator: the indicator element appended to the list
renderLoadingIndicator(list, id) ==
  Append(list, [id |-> id, cls |-> "loading", html |-> <<"Thinking...">>])

\* a remove that clears every indicator of the list, not the one it was called on
remove_allLoading(list, id) == SelectSeq(list, LAMBDA el : el.cls # "loading")

\* a remove that detaches nothing
remove_none(list, id) == list

\* Element.remove(): detach the element; nothing happens if it is not attached
remove(list, id) == SelectSeq(list, LAMBDA el : el.id # id)

\* a renderMessage that creates the element and never attaches it
appendMessage_lost(list, id, role, html) == list

\* a renderMessage that inserts the element before the first child
appendMessage_front(list, id, role, html) ==
  <<[id |-> id, cls |-> role, html |-> html]>> \o list

\* a renderMessage that keeps the list in submission order: the element goes
\* before the elements of every later pipeline
appendMessage_sorted(list, id, role, html) ==
  SelectSeq(list, LAMBDA el : el.id[1] <= id[1])
    \o <<[id |-> id, cls |-> role, html |-> html]>>
    \o SelectSeq(list, LAMBDA el : el.id[1] > id[1])

\* renderMessage after its await: the element appended to the list
appendMessage(list, id, role, html) ==
  Append(list, [id |-> id, cls |-> role, html |-> html])

\* a send that is issued again at once (a retry without waiting)
sendMessage_twice(cs, p, message) ==
  Append(Append(cs, [pid |-> p, message |-> message]), [pid |-> p, message |-> message])

\* chat.sendMessage({ message }): the call is issued
sendMessage(cs, p, message) == Append(cs, [pid |-> p, message |-> message])

\* the element created by the innerHTML assignment of line 18
ApiKeyErrorEl ==
  [id |-> ElId(ModuleBody, "error"), cls |-> "model", html |-> ApiKeyErrorHtml]

role(stage) == IF stage = "user" THEN "user" ELSE "model"

\* error bubbles that leave the error itself out
ErrorText_noDetail(p, error) ==
  <<"**", "Error:", "**", " Something went wrong. Please try again. ">>

ErrorText(p, error) ==
  IF p = 0 THEN InitErrorText(error) ELSE SubmitErrorText(error)

\* -------------------------------------------------------------- actions
\* an initializeChat that shows the indicator and waits, without sending
initializeChat_noSend ==
  /\ messageList' = renderLoadingIndicator(messageList, ElId(0, "loading"))
  /\ calls' = calls
  /\ pipelines' = [pipelines EXCEPT ![0] =
                     [@ EXCEPT !.pc = "pending", !.loadingIndicator = ElId(0, "loading")]]

\* initializeChat() up to its first await: indicator shown, "Hello" sent
initializeChat ==
  /\ messageList' = renderLoadingIndicator(messageList, ElId(0, "loading"))
  /\ calls' = sendMessage(calls, 0, <<"Hello">>)
  /\ pipelines' = [pipelines EXCEPT ![0] =
                     [@ EXCEPT !.pc = "pending", !.loadingIndicator = ElId(0, "loading")]]

\* a module body that shows the key error and goes on instead of throwing
Boot_noThrow ==
  /\ main = "start"
  /\ event' = "boot"
  /\ chat' = "created"
  /\ submitListener' = TRUE
  /\ messageList' = renderLoadingIndicator(
                       IF ~API_KEY THEN <<ApiKeyErrorEl>> ELSE messageList,
                       ElId(0, "loading"))
  /\ calls' = sendMessage(calls, 0, <<"Hello">>)
  /\ pipelines' = [pipelines EXCEPT ![0] =
                     [@ EXCEPT !.pc = "pending", !.loadingIndicator = ElId(0, "loading")]]
  /\ main' = IF ~API_KEY THEN "halted" ELSE "running"
  /\ UNCHANGED <<API_KEY, chatInput, microtasks, console>>

\* a module body that registers the submit handler before it checks the key
Boot_listenerFirst ==
  /\ main = "start"
  /\ event' = "boot"
  /\ submitListener' = TRUE
  /\ IF ~API_KEY
     THEN /\ messageList' = <<ApiKeyErrorEl>>
          /\ main' = "halted"
          /\ UNCHANGED <<chat, pipelines, calls>>
     ELSE /\ chat' = "created"
          /\ initializeChat
          /\ main' = "running"
  /\ UNCHANGED <<API_KEY, chatInput, microtasks, console>>

\* evaluation of the module body, top to bottom
Boot ==
  /\ main = "start"
  /\ event' = "boot"
  /\ IF ~API_KEY
     THEN \* lines 17-24: fixed error markup, then throw: nothing below runs
          /\ messageList' = <<ApiKeyErrorEl>>
                  /\ main' = "halted"
          /\ UNCHANGED <<chat, submitListener, pipelines, calls>>
     ELSE \* lines 26-46, 81, 122
          /\ chat' = "created"
          /\ submitListener' = TRUE
          /\ initializeChat
          /\ main' = "running"
  /\ UNCHANGED <<API_KEY, chatInput, microtasks, console>>

\* the user edits the input field; nothing ever disables it
Type(v) ==
  /\ main # "start"
  /\ microtasks = <<>>
  /\ chatInput' = v
  /\ event' = "input"
  /\ UNCHANGED <<API_KEY, main, chat, submitListener, messageList, pipelines,
                 microtasks, calls, console>>

\* the pipeline a new submission runs in: the first one not yet used
FreshPid(p) ==
  /\ p \in UserPids
  /\ pipelines[p].pc = "idle"
  /\ \A q \in UserPids : q < p => pipelines[q].pc # "idle"

\* a submit handler without the early return of lines 84-86
submitHandler_noCheck ==
  \E p \in UserPids :
    /\ FreshPid(p)
    /\ chatInput' = <<>>
    /\ pipelines' = [pipelines EXCEPT ![p] =
         [@ EXCEPT !.pc = "render", !.stage = "user",
                   !.userInput = trim(chatInput),
                   !.parsed = marked_parse(trim(chatInput))]]
    /\ microtasks' = Append(microtasks, p)

\* a submit handler that leaves the submitted text in the field
submitHandler_noClear ==
  LET userInput == trim(chatInput) IN
  IF userInput = <<>>
  THEN UNCHANGED <<chatInput, pipelines, microtasks>>
  ELSE \E p \in UserPids :
         /\ FreshPid(p)
         /\ chatInput' = chatInput
         /\ pipelines' = [pipelines EXCEPT ![p] =
              [@ EXCEPT !.pc = "render", !.stage = "user",
                        !.userInput = userInput,
                        !.parsed = marked_parse(userInput)]]
         /\ microtasks' = Append(microtasks, p)

\* the submit handler up to its first await (inside renderMessage, line 59)
submitHandler ==
  LET userInput == trim(chatInput) IN
  IF userInput = <<>>
  THEN UNCHANGED <<chatInput, pipelines, microtasks>>
  ELSE \E p \in UserPids :
         /\ FreshPid(p)
         /\ chatInput' = <<>>
         /\ pipelines' = [pipelines EXCEPT ![p] =
              [@ EXCEPT !.pc = "render", !.stage = "user",
                        !.userInput = userInput,
                        !.parsed = marked_parse(userInput)]]
         /\ microtasks' = Append(microtasks, p)

\* a handler that shows its indicator before it awaits the user message
Submit_indicatorFirst ==
  /\ main # "start"
  /\ microtasks = <<>>
  /\ event' = "submit"
  /\ IF submitListener /\ trim(chatInput) # <<>>
     THEN \E p \in UserPids :
            /\ FreshPid(p)
            /\ chatInput' = <<>>
            /\ messageList' = renderLoadingIndicator(messageList, ElId(p, "loading"))
            /\ pipelines' = [pipelines EXCEPT ![p] =
                 [@ EXCEPT !.pc = "render", !.stage = "user",
                           !.userInput = trim(chatInput),
                           !.parsed = marked_parse(trim(chatInput))]]
            /\ microtasks' = Append(microtasks, p)
     ELSE UNCHANGED <<chatInput, pipelines, microtasks, messageList>>
  /\ UNCHANGED <<API_KEY, main, chat, submitListener, calls, console>>

\* a submit event on the form
Submit ==
  /\ main # "start"
  /\ microtasks = <<>>
  /\ event' = "submit"
  /\ IF submitListener
     THEN submitHandler
     ELSE UNCHANGED <<chatInput, pipelines, microtasks>>
  /\ UNCHANGED <<API_KEY, main, chat, submitListener, messageList, calls,
                 console>>

\* a try block that assigns the reply text to innerHTML without marked.parse
Resolve_raw(p, r) ==
  /\ pipelines[p].pc = "pending"
  /\ microtasks = <<>>
  /\ event' = "resolve"
  /\ messageList' = remove(messageList, pipelines[p].loadingIndicator)
  /\ pipelines' = [pipelines EXCEPT ![p] =
       [@ EXCEPT !.settled = "resolved", !.response = r,
                 !.pc = "render", !.stage = "reply", !.parsed = r.text]]
  /\ microtasks' = Append(microtasks, p)
  /\ UNCHANGED <<API_KEY, main, chat, submitListener, chatInput, calls, console>>

\* a try block that goes on the moment the reply is there, even while the
\* continuation of another handler is still queued
Resolve_anytime(p, r) ==
  /\ pipelines[p].pc = "pending"
  /\ event' = "resolve"
  /\ messageList' = remove(messageList, pipelines[p].loadingIndicator)
  /\ pipelines' = [pipelines EXCEPT ![p] =
       IF r.hasText
       THEN [@ EXCEPT !.settled = "resolved", !.response = r,
                      !.pc = "render", !.stage = "reply",
                      !.parsed = marked_parse(r.text)]
       ELSE [@ EXCEPT !.settled = "resolved", !.response = r,
                      !.pc = "caught", !.stage = "reply"]]
  /\ microtasks' = Append(microtasks, p)
  /\ UNCHANGED <<API_KEY, main, chat, submitListener, chatInput, calls, console>>

\* a renderMessage that attaches its element before it parses the text, so that
\* a throwing marked.parse leaves an empty reply bubble behind
Resolve_appendFirst(p, r) ==
  /\ pipelines[p].pc = "pending"
  /\ microtasks = <<>>
  /\ event' = "resolve"
  /\ messageList' =
       IF r.hasText
       THEN remove(messageList, pipelines[p].loadingIndicator)
       ELSE appendMessage(remove(messageList, pipelines[p].loadingIndicator),
                          ElId(p, "reply"), "model", <<>>)
  /\ pipelines' = [pipelines EXCEPT ![p] =
       IF r.hasText
       THEN [@ EXCEPT !.settled = "resolved", !.response = r,
                      !.pc = "render", !.stage = "reply",
                      !.parsed = marked_parse(r.text)]
       ELSE [@ EXCEPT !.settled = "resolved", !.response = r,
                      !.pc = "caught", !.stage = "reply"]]
  /\ microtasks' = Append(microtasks, p)
  /\ UNCHANGED <<API_KEY, main, chat, submitListener, chatInput, calls, console>>

\* chat.sendMessage of pipeline p fulfils with response r: the try block goes
\* on, up to the await inside renderMessage; marked.parse throws on undefined
Resolve(p, r) ==
  /\ pipelines[p].pc = "pending"
  /\ microtasks = <<>>
  /\ event' = "resolve"
  /\ messageList' = remove(messageList, pipelines[p].loadingIndicator)
  /\ pipelines' = [pipelines EXCEPT ![p] =
       IF r.hasText
       THEN [@ EXCEPT !.settled = "resolved", !.response = r,
                      !.pc = "render", !.stage = "reply",
                      !.parsed = marked_parse(r.text)]
       ELSE [@ EXCEPT !.settled = "resolved", !.response = r,
                      !.pc = "caught", !.stage = "reply"]]
  /\ microtasks' = Append(microtasks, p)
  /\ UNCHANGED <<API_KEY, main, chat, submitListener, chatInput, calls,
                 console>>

\* a pipeline without catch block: the rejection ends it where it stands
Reject_noCatch(p, e) ==
  /\ pipelines[p].pc = "pending"
  /\ microtasks = <<>>
  /\ event' = "reject"
  /\ pipelines' = [pipelines EXCEPT ![p] =
       [@ EXCEPT !.settled = "rejected", !.error = e, !.pc = "done"]]
  /\ UNCHANGED <<API_KEY, main, chat, submitListener, messageList, chatInput,
                 microtasks, calls, console>>

\* chat.sendMessage of pipeline p rejects with error e: the catch block runs,
\* up to the await inside renderMessage
Reject(p, e) ==
  /\ pipelines[p].pc = "pending"
  /\ microtasks = <<>>
  /\ event' = "reject"
  /\ messageList' = remove(messageList, pipelines[p].loadingIndicator)
  /\ pipelines' = [pipelines EXCEPT ![p] =
       [@ EXCEPT !.settled = "rejected", !.error = e,
                 !.pc = "render", !.stage = "error",
                 !.parsed = marked_parse(ErrorText(p, e))]]
  /\ microtasks' = Append(microtasks, p)
  /\ UNCHANGED <<API_KEY, main, chat, submitListener, chatInput, calls,
                 console>>

\* renderMessage resumes after `await marked.parse(text)`: element appended,
\* the promise of renderMessage fulfils and its caller is queued
RenderResume(p) ==
  /\ microtasks # <<>> /\ Head(microtasks) = p
  /\ pipelines[p].pc = "render"
  /\ event' = "microtask"
  /\ messageList' = appendMessage(messageList, ElId(p, pipelines[p].stage),
                                  role(pipelines[p].stage), pipelines[p].parsed)
  /\ pipelines' = [pipelines EXCEPT ![p].pc = "resume"]
  /\ microtasks' = Append(Tail(microtasks), p)
  /\ UNCHANGED <<API_KEY, main, chat, submitListener, chatInput, calls, console>>

\* the handler resumes after `await renderMessage('user', ...)`: lines 91-94
SendResume(p) ==
  /\ microtasks # <<>> /\ Head(microtasks) = p
  /\ pipelines[p].pc = "resume" /\ pipelines[p].stage = "user"
  /\ event' = "microtask"
  /\ messageList' = renderLoadingIndicator(messageList, ElId(p, "loading"))
  /\ calls' = sendMessage(calls, p, pipelines[p].userInput)
  /\ pipelines' = [pipelines EXCEPT ![p] =
                     [@ EXCEPT !.pc = "pending", !.loadingIndicator = ElId(p, "loading")]]
  /\ microtasks' = Tail(microtasks)
  /\ UNCHANGED <<API_KEY, main, chat, submitListener, chatInput, console>>

\* the try block resumes after `await renderMessage('model', response.text)`
ReplyResume(p) ==
  /\ microtasks # <<>> /\ Head(microtasks) = p
  /\ pipelines[p].pc = "resume" /\ pipelines[p].stage = "reply"
  /\ event' = "microtask"
  /\ pipelines' = [pipelines EXCEPT ![p].pc = "done"]
  /\ microtasks' = Tail(microtasks)
  /\ UNCHANGED <<API_KEY, main, chat, submitListener, messageList, chatInput,
                 calls, console>>

\* a catch block that, after logging, takes the submit handler off the form
ErrorResume_unregister(p) ==
  /\ microtasks # <<>> /\ Head(microtasks) = p
  /\ pipelines[p].pc = "resume" /\ pipelines[p].stage = "error"
  /\ event' = "microtask"
  /\ console' = Append(console, errorString(pipelines[p].error))
  /\ pipelines' = [pipelines EXCEPT ![p].pc = "done"]
  /\ microtasks' = Tail(microtasks)
  /\ submitListener' = FALSE
  /\ UNCHANGED <<API_KEY, main, chat, messageList, chatInput, calls>>

\* the catch block resumes after its `await renderMessage(...)`: console.error
ErrorResume(p) ==
  /\ microtasks # <<>> /\ Head(microtasks) = p
  /\ pipelines[p].pc = "resume" /\ pipelines[p].stage = "error"
  /\ event' = "microtask"
  /\ console' = Append(console, errorString(pipelines[p].error))
  /\ pipelines' = [pipelines EXCEPT ![p].pc = "done"]
  /\ microtasks' = Tail(microtasks)
  /\ UNCHANGED <<API_KEY, main, chat, submitListener, messageList, chatInput,
                 calls>>

\* `await renderMessage('model', response.text)` throws what marked.parse
\* threw: the catch block runs, up to the await inside renderMessage
Catch(p) ==
  /\ microtasks # <<>> /\ Head(microtasks) = p
  /\ pipelines[p].pc = "caught"
  /\ event' = "microtask"
  /\ messageList' = remove(messageList, pipelines[p].loadingIndicator)
  /\ pipelines' = [pipelines EXCEPT ![p] =
       [@ EXCEPT !.error = MarkedError,
                 !.pc = "render", !.stage = "error",
                 !.parsed = marked_parse(ErrorText(p, MarkedError))]]
  /\ microtasks' = Append(Tail(microtasks), p)
  /\ UNCHANGED <<API_KEY, main, chat, submitListener, chatInput, calls,
                 console>>

Next ==
  \/ Boot
  \/ \E v \in InputValues : Type(v)
  \/ Submit
  \/ \E p \in Pids, r \in Responses : Resolve(p, r)
  \/ \E p \in Pids, e \in Errors : Reject(p, e)
  \/ \E p \in Pids : RenderResume(p)
  \/ \E p \in Pids : SendResume(p)
  \/ \E p \in Pids : ReplyResume(p)
  \/ \E p \in Pids : ErrorResume(p)
  \/ \E p \in Pids : Catch(p)

Spec == Init /\ [][Next]_vars

\* the call of pipeline p settles, one way or the other
Settle(p) ==
  \/ \E r \in Responses : Resolve(p, r)
  \/ \E e \in Errors : Reject(p, e)

\* the queued continuation of pipeline p runs
Microtask(p) ==
  \/ RenderResume(p)
  \/ SendResume(p)
  \/ ReplyResume(p)
  \/ ErrorResume(p)
  \/ Catch(p)

\* Every call issued eventually resolves or rejects, and the event loop runs
\* every queued microtask.  Pipelines settle once each, so weak fairness of
\* "some call settles" leaves no pending call behind.
FairSpec ==
  /\ Spec
  /\ WF_vars(\E p \in Pids : Settle(p))
  /\ WF_vars(\E p \in Pids : Microtask(p))

\* ------------------------------------------------- reading the state
\* Node.textContent of markup: tags dropped, character references decoded
Tags == {"<p>", "</p>", "</p>\n", "<strong>", "</strong>", "<code>", "</code>"}

RECURSIVE textContent(_)
textContent(html) ==
  IF html = <<>> THEN <<>>
  ELSE IF Head(html) \in Tags THEN textContent(Tail(html))
  ELSE <<IF Head(html) = "&amp;" THEN "&" ELSE Head(html)>> \o textContent(Tail(html))

Contains(s, sub) ==
  \E i \in 1 .. (Len(s) - Len(sub) + 1) : SubSeq(s, i, i + Len(sub) - 1) = sub

\* positions in list of the elements of class cls that pipeline p created
Positions(list, p, cls) ==
  {i \in DOMAIN list : list[i].id[1] = p /\ list[i].cls = cls}

InList(list, id) == \E i \in DOMAIN list : list[i].id = id

Sent(cs, p) == \E i \in DOMAIN cs : cs[i].pid = p

\* the messages of the view, indicators left out
Messages(list) == SelectSeq(list, LAMBDA el : el.cls # "loading")

\* t is s without its leading and trailing blanks
IsTrimOf(t, s) ==
  /\ t = <<>> \/ (Head(t) # " " /\ t[Len(t)] # " ")
  /\ \E i \in 0 .. Len(s) :
       /\ i + Len(t) <= Len(s)
       /\ SubSeq(s, i + 1, i + Len(t)) = t
       /\ \A k \in DOMAIN s : (k <= i \/ k > i + Len(t)) => s[k] = " "

Blank(s) == \A i \in DOMAIN s : s[i] = " "

IsPrefix(s, t) == Len(s) <= Len(t) /\ SubSeq(t, 1, Len(s)) = s

Pending == {p \in Pids : pipelines[p].pc = "pending"}

\* ---------------------------------------------------------------- claims

\* C1: a submit whose trimmed input is non-empty starts a pipeline on that
\* trimmed text; every pipeline that has issued its call has exactly one user
\* message in the view, carrying that text, and the message was already in
\* the view in the state from which the call was issued.
C1_UserMessageBeforeSend ==
  /\ [](\A p \in UserPids :
          /\ Cardinality(Positions(messageList, p, "user")) <= 1
          /\ Sent(calls, p) =>
               /\ Cardinality(Positions(messageList, p, "user")) = 1
               /\ \A i \in Positions(messageList, p, "user") :
                    textContent(messageList[i].html) = pipelines[p].userInput
               /\ \A i \in DOMAIN calls :
                    calls[i].pid = p => calls[i].message = pipelines[p].userInput)
  /\ [][ /\ (event' = "submit" /\ submitListener /\ ~Blank(chatInput))
            => \E p \in UserPids :
                 /\ pipelines[p].pc = "idle"
                 /\ pipelines'[p].pc # "idle"
                 /\ pipelines'[p].userInput # <<>>
                 /\ IsTrimOf(pipelines'[p].userInput, chatInput)
         /\ \A p \in UserPids :
              (~Sent(calls, p) /\ Sent(calls', p))
                => Cardinality(Positions(messageList, p, "user")) = 1 ]_vars

C1_Witness ==
  \E p \in UserPids :
    /\ pipelines[p].pc = "pending"
    /\ Sent(calls, p)
    /\ Positions(messageList, p, "user") # {}

\* C2: a submit whose input is empty or blank changes nothing: not the view,
\* not the input field, no pipeline starts, no call is issued.
C2_BlankSubmitNoEffect ==
  [][ (event' = "submit" /\ submitListener /\ Blank(chatInput))
        => UNCHANGED <<messageList, chatInput, pipelines, microtasks, calls, console>> ]_vars

C2_Witness ==
  /\ event = "submit"
  /\ submitListener
  /\ chatInput = <<" ", " ">>
  /\ microtasks = <<>>

\* C3: every pipeline has exactly its own indicator in the view while its
\* call is pending and none before or after; an indicator leaves the view only
\* in the step in which its own pipeline's call settles (resolved or
\* rejected), and an indicator that has been removed never comes back.
C3_OwnIndicatorOnce ==
  /\ [](\A p \in Pids :
          /\ Cardinality(Positions(messageList, p, "loading"))
               = (IF pipelines[p].pc = "pending" THEN 1 ELSE 0)
          /\ pipelines[p].pc = "pending"
               => InList(messageList, pipelines[p].loadingIndicator)
          /\ pipelines[p].pc = "pending"
               => pipelines[p].loadingIndicator[1] = p)
  /\ [][ \A p \in Pids :
           /\ (Positions(messageList, p, "loading") # {}
                 /\ Positions(messageList', p, "loading") = {})
                => /\ pipelines[p].pc = "pending"
                   /\ pipelines'[p].settled \in {"resolved", "rejected"}
                   /\ event' \in {"resolve", "reject"}
           /\ (pipelines[p].settled # "none")
                => Positions(messageList', p, "loading") = {} ]_vars

C3_Witness ==
  \E p, q \in Pids :
    /\ p # q
    /\ pipelines[p].settled = "rejected" /\ pipelines[p].pc = "done"
    /\ pipelines[q].pc = "pending"
    /\ \E i, j \in DOMAIN calls : i < j /\ calls[i].pid = q /\ calls[j].pid = p

\* C4: once the call of a pipeline has rejected, its indicator is not in the
\* view, and once its catch block has rendered, the view holds exactly one model
\* message of that pipeline, whose text contains the string of the error.
C4_RejectShowsError ==
  \A p \in Pids :
    pipelines[p].settled = "rejected" =>
      /\ ~InList(messageList, pipelines[p].loadingIndicator)
      /\ Positions(messageList, p, "loading") = {}
      /\ pipelines[p].pc \in {"resume", "done"} =>
           /\ Cardinality(Positions(messageList, p, "model")) = 1
           /\ \A i \in Positions(messageList, p, "model") :
                Contains(textContent(messageList[i].html),
                         <<pipelines[p].error.name, ": ", pipelines[p].error.message>>)

C4_Witness ==
  \E p \in UserPids :
    /\ pipelines[p].settled = "rejected"
    /\ pipelines[p].pc = "done"
    /\ pipelines[0].settled = "rejected"

\* C5: with the key set, the first call ever issued is the "Hello" of
\* initializeChat and it is the only call of that pipeline; the view holds no
\* model message of that pipeline while the call is pending and exactly one once
\* the reply or the error has been rendered.
C5_OneHelloFirst ==
  (API_KEY /\ main # "start") =>
    /\ calls # <<>>
    /\ calls[1] = [pid |-> 0, message |-> <<"Hello">>]
    /\ Cardinality({i \in DOMAIN calls : calls[i].pid = 0}) = 1
    /\ Cardinality(Positions(messageList, 0, "model"))
         = (IF pipelines[0].pc \in {"resume", "done"} THEN 1 ELSE 0)
    /\ Positions(messageList, 0, "user") = {}

C5_Witness ==
  /\ API_KEY
  /\ pipelines[0].pc = "done"
  /\ Len(calls) >= 2

\* C6: with the key missing, in every state after the module body ran the view
\* is exactly the one fixed error message, no chat session exists and no call
\* has been issued.
C6_MissingKeyHalts ==
  (~API_KEY /\ main # "start") =>
    /\ main = "halted"
    /\ Len(messageList) = 1
    /\ messageList[1].cls = "model"
    /\ Contains(textContent(messageList[1].html), <<"Error:">>)
    /\ chat = "uninitialized"
    /\ calls = <<>>
    /\ \A p \in Pids : pipelines[p].pc = "idle"

C6_Witness ==
  /\ ~API_KEY
  /\ main = "halted"
  /\ event = "input"
  /\ chatInput # <<>>

\* C7 as stated: after a start without key the submit handler is registered.
C7_Original ==
  main = "halted" => submitListener

\* C7 as amended: after a start without key no submit handler is registered,
\* and a submit event, whatever the input, changes nothing of the page.
C7_Amended ==
  /\ [](main = "halted" => ~submitListener)
  /\ [][ (main = "halted" /\ event' = "submit")
           => UNCHANGED <<messageList, chatInput, pipelines, microtasks, calls,
                          console, chat>> ]_vars

C7_Witness ==
  /\ main = "halted"
  /\ event = "submit"
  /\ ~Blank(chatInput)

\* C8 as stated: at most one chat.sendMessage call is pending at any time.
C8_OneInFlight ==
  Cardinality(Pending) <= 1

\* C9: once the call of a pipeline has resolved with a reply text and the try
\* block has rendered, the view holds exactly one model message of that
\* pipeline and its markup is marked.parse of that pipeline's reply text; the
\* message is appended in a later step than the removal of the indicator.
C9_ReplyRendered ==
  /\ [](\A p \in Pids :
          (pipelines[p].settled = "resolved" /\ pipelines[p].response.hasText
             /\ pipelines[p].pc \in {"resume", "done"})
          => /\ Cardinality(Positions(messageList, p, "model")) = 1
             /\ \A i \in Positions(messageList, p, "model") :
                  /\ messageList[i].html = marked_parse(pipelines[p].response.text)
                  /\ textContent(messageList[i].html)
                       = SelectSeq(pipelines[p].response.text, LAMBDA t : t # "**"))
  /\ [][ \A p \in Pids :
           (Positions(messageList, p, "model") = {}
              /\ Positions(messageList', p, "model") # {})
           => /\ Positions(messageList, p, "loading") = {}
              /\ pipelines[p].settled # "none" ]_vars

C9_Witness ==
  \E p, q \in Pids :
    /\ pipelines[p].pc = "done" /\ pipelines[q].pc = "done"
    /\ pipelines[p].settled = "resolved" /\ pipelines[q].settled = "resolved"
    /\ pipelines[p].response.hasText /\ pipelines[q].response.hasText
    /\ pipelines[p].response.text # pipelines[q].response.text
    /\ \E i, j \in DOMAIN messageList :
         /\ i < j
         /\ messageList[i].id = ElId(p, "reply")
         /\ messageList[j].id = ElId(q, "reply")
         /\ p > q

\* C10: in every step the messages of the view before the step are, unchanged
\* and in the same order, the first messages of the view after it; a step adds
\* at most one message, as the last child of the list; every element that
\* leaves the view is a loading indicator.
C10_AppendOnly ==
  [][ /\ IsPrefix(Messages(messageList), Messages(messageList'))
      /\ Len(Messages(messageList')) <= Len(Messages(messageList)) + 1
      /\ Len(Messages(messageList')) > Len(Messages(messageList))
           => messageList'[Len(messageList')].cls # "loading"
      /\ \A i \in DOMAIN messageList :
           ~InList(messageList', messageList[i].id) => messageList[i].cls = "loading"
    ]_vars

C10_Witness ==
  /\ Len(Messages(messageList)) >= 3
  /\ \E i, j \in DOMAIN messageList :
       /\ i < j
       /\ messageList[i].cls = "loading"
       /\ messageList[j].cls = "model"

\* the pipelines that ended in their catch block
Failed == {q \in Pids : pipelines[q].pc = "done" /\ pipelines[q].error # NoError}

\* C11: once a pipeline has ended in failure the handler stays registered and
\* the session stays in place; a non-blank submit made after that starts a
\* pipeline, and again and again every pipeline started by then has shown its
\* user message, issued its call and ended with exactly one model bubble and
\* no indicator (so none of them stays unfinished).
C11_UsableAfterFailure ==
  /\ [](Failed # {} => (submitListener /\ chat = "created" /\ main = "running"))
  /\ [][ (Failed # {} /\ event' = "submit" /\ ~Blank(chatInput))
           => \E p \in UserPids :
                /\ pipelines[p].pc = "idle"
                /\ pipelines'[p].pc = "render"
                /\ microtasks' = <<p>> ]_vars
  /\ []<>(Failed # {} =>
            \A p \in UserPids :
              \/ pipelines[p].pc = "idle"
              \/ /\ pipelines[p].pc = "done"
                 /\ Sent(calls, p)
                 /\ Cardinality(Positions(messageList, p, "user")) = 1
                 /\ Cardinality(Positions(messageList, p, "model")) = 1
                 /\ Positions(messageList, p, "loading") = {})

C11_Witness ==
  \E p \in UserPids, q \in Pids :
    /\ q \in Failed
    /\ pipelines[q].settled = "rejected"
    /\ pipelines[p].pc = "done"
    /\ \E i, j \in DOMAIN messageList :
         /\ i < j
         /\ messageList[i].id = ElId(q, "error")
         /\ messageList[j].id = ElId(p, "user")

\* C12: a pipeline leaves the pending state only in the step in which its call
\* resolves or rejects; if every call settles and every queued continuation
\* runs, then again and again no call is pending and no indicator is in the
\* view (so no pipeline stays pending and no indicator stays).
C12_PendingSettles ==
  /\ [][ \A p \in Pids :
           (pipelines[p].pc = "pending" /\ pipelines'[p].pc # "pending")
             => /\ pipelines[p].settled = "none"
                /\ pipelines'[p].settled \in {"resolved", "rejected"}
                /\ event' \in {"resolve", "reject"} ]_vars
  /\ []<>(/\ Pending = {}
          /\ \A i \in DOMAIN messageList : messageList[i].cls # "loading")

C12_Witness ==
  /\ Cardinality({p \in Pids : pipelines[p].settled = "resolved"}) >= 1
  /\ Cardinality({p \in Pids : pipelines[p].settled = "rejected"}) >= 1
  /\ Pending = {}
  /\ \A p \in Pids : pipelines[p].pc = "done"
  /\ \A i \in DOMAIN messageList : messageList[i].cls # "loading"

\* the pipelines that have reached their chat.sendMessage
ReachedSend == {p \in Pids : pipelines[p].pc = "pending" \/ pipelines[p].settled # "none"}

\* C13: every pipeline that has reached its send step has issued exactly one
\* call, whatever the outcome, and no other call exists: once the module body
\* has run with the key set, the number of calls is one (the "Hello") plus the
\* number of submissions that have reached their send step.
C13_NoRetry ==
  /\ \A p \in Pids :
       Cardinality({i \in DOMAIN calls : calls[i].pid = p})
         = (IF p \in ReachedSend THEN 1 ELSE 0)
  /\ Len(calls) = Cardinality(ReachedSend)
  /\ main = "running" =>
       Len(calls) = 1 + Cardinality(ReachedSend \cap UserPids)

C13_Witness ==
  /\ \E p \in UserPids : pipelines[p].settled = "rejected" /\ pipelines[p].pc = "done"
  /\ \E p \in UserPids : pipelines[p].settled = "resolved" /\ pipelines[p].pc = "done"
  /\ pipelines[0].pc = "done"
  /\ Len(calls) = 1 + MaxSubmits

\* C14 as stated: the user message is in the view in the state the handling of
\* the submit event leaves behind.
C14_Original ==
  \A p \in UserPids :
    pipelines[p].pc # "idle" => Positions(messageList, p, "user") # {}

\* C14 as amended: the step that handles the submit leaves the view as it is
\* and queues the continuation of renderMessage; the step that follows, whatever
\* else is pending, is that continuation and appends the user message as the
\* last child, everything else of the view unchanged.
C14_Amended ==
  [][ \A p \in UserPids :
        /\ (pipelines[p].pc = "idle" /\ pipelines'[p].pc # "idle")
             => /\ messageList' = messageList
                /\ calls' = calls
                /\ pipelines'[p].pc = "render"
                /\ microtasks' = <<p>>
        /\ (pipelines[p].pc = "render" /\ pipelines[p].stage = "user")
             => /\ Len(messageList') = Len(messageList) + 1
                /\ SubSeq(messageList', 1, Len(messageList)) = messageList
                /\ messageList'[Len(messageList')].id = ElId(p, "user")
                /\ messageList'[Len(messageList')].cls = "user"
                /\ \A q \in Pids \ {p} : pipelines'[q] = pipelines[q]
                /\ chatInput' = chatInput ]_vars

C14_Witness ==
  \E p \in UserPids, q \in Pids :
    /\ p # q
    /\ pipelines[p].pc = "render" /\ pipelines[p].stage = "user"
    /\ Positions(messageList, p, "user") = {}
    /\ pipelines[q].pc = "pending"

\* C15: the model bubbles stand in the view in the order in which the calls
\* settled: the bubble of a pipeline is appended as the last child, in the task
\* in which its call settles, when every pipeline that settled before has its
\* bubble in the view and no pending pipeline has one.  (That this order can
\* differ from submission order is the witness.)
C15_ReplyOrderIsSettleOrder ==
  [][ \A p \in Pids :
        (Positions(messageList, p, "model") = {}
           /\ Positions(messageList', p, "model") # {})
        => /\ Positions(messageList', p, "model") = {Len(messageList')}
           /\ pipelines[p].settled # "none"
           /\ \A q \in Pids \ {p} :
                /\ pipelines[q].settled # "none"
                     => Positions(messageList, q, "model") # {}
                /\ pipelines[q].settled = "none"
                     => Positions(messageList', q, "model") = {} ]_vars

C15_Witness ==
  \E p, q \in UserPids :
    /\ p < q
    /\ \E c, d \in DOMAIN calls : c < d /\ calls[c].pid = p /\ calls[d].pid = q
    /\ \E i, j \in DOMAIN messageList :
         /\ i < j
         /\ messageList[i].id = ElId(q, "reply")
         /\ messageList[j].id = ElId(p, "reply")

\* C16: the step that handles a non-blank submit empties the field, with the
\* view and the calls as they were (so before the user message is rendered and
\* before the call is issued); afterwards only the user changes the field: no
\* step of a pipeline writes it, so while the submission is pending the field
\* holds what the user has typed since, and a non-blank submit made then
\* starts a further pipeline.
C16_ClearedAtSubmit ==
  [][ /\ \A p \in UserPids :
           (pipelines[p].pc = "idle" /\ pipelines'[p].pc # "idle")
             => /\ chatInput # <<>>
                /\ chatInput' = <<>>
                /\ messageList' = messageList
                /\ calls' = calls
                /\ ~Sent(calls', p)
                /\ Positions(messageList', p, "user") = {}
      /\ (event' \notin {"input", "submit"}) => chatInput' = chatInput
      /\ (Pending # {} /\ event' = "submit" /\ ~Blank(chatInput))
           => \E p \in UserPids :
                pipelines[p].pc = "idle" /\ pipelines'[p].pc = "render" ]_vars

C16_Witness ==
  \E p, q \in UserPids :
    /\ p < q
    /\ pipelines[p].pc = "pending"
    /\ pipelines[q].pc = "pending"
    /\ chatInput = <<>>

\* C17: the view holds as many loading indicators as calls are pending, and
\* they are the indicators of the pending pipelines; with no call pending it
\* holds none.
C17_IndicatorsArePending ==
  /\ Cardinality({i \in DOMAIN messageList : messageList[i].cls = "loading"})
       = Cardinality(Pending)
  /\ \A i \in DOMAIN messageList :
       messageList[i].cls = "loading" =>
         \E p \in Pending : messageList[i].id = pipelines[p].loadingIndicator
  /\ Pending = {} =>
       \A i \in DOMAIN messageList : messageList[i].cls # "loading"

C17_Witness ==
  /\ Cardinality(Pending) = 2
  /\ Cardinality({i \in DOMAIN messageList : messageList[i].cls = "loading"}) = 2
  /\ \E p \in Pids : pipelines[p].pc = "done" /\ pipelines[p].error = MarkedError

\* C18: for every submission, whatever other pipelines do in between: its
\* indicator and its model message are appended only when its user message is
\* already in the view, and both stand later in the view than the user message.
C18_UserFirst ==
  /\ [](\A p \in UserPids :
          /\ \A i \in Positions(messageList, p, "user") :
               \A j \in Positions(messageList, p, "loading")
                          \cup Positions(messageList, p, "model") : i < j
          /\ (Sent(calls, p) \/ Positions(messageList, p, "model") # {}
                \/ Positions(messageList, p, "loading") # {})
               => Positions(messageList, p, "user") # {})
  /\ [][ \A p \in UserPids :
           /\ (Positions(messageList, p, "loading") = {}
                 /\ Positions(messageList', p, "loading") # {})
                => Positions(messageList, p, "user") # {}
           /\ (Positions(messageList, p, "model") = {}
                 /\ Positions(messageList', p, "model") # {})
                => /\ Positions(messageList, p, "user") # {}
                   /\ pipelines[p].loadingIndicator = ElId(p, "loading") ]_vars

C18_Witness ==
  \E p \in UserPids, q \in Pids :
    /\ p # q
    /\ \E i, k, j \in DOMAIN messageList :
         /\ i < k /\ k < j
         /\ messageList[i].id = ElId(p, "user")
         /\ messageList[k].id[1] = q
         /\ messageList[k].cls # "loading"
         /\ messageList[j].id[1] = p
         /\ messageList[j].cls = "model"

\* C19: no pipeline ever has more than one model message in the view.  When the
\* call resolved and rendering the reply threw, the catch block finds the
\* indicator already gone (its remove changes nothing), and the one model
\* message of the pipeline is the error bubble, carrying the error marked threw.
C19_OneModelMessage ==
  /\ [](\A p \in Pids :
          /\ Cardinality(Positions(messageList, p, "model")) <= 1
          /\ ~(InList(messageList, ElId(p, "reply")) /\ InList(messageList, ElId(p, "error")))
          /\ pipelines[p].pc = "done"
               => Cardinality(Positions(messageList, p, "model")) = 1
          /\ (pipelines[p].settled = "resolved" /\ ~pipelines[p].response.hasText
                /\ pipelines[p].pc \in {"resume", "done"})
               => /\ ~InList(messageList, ElId(p, "reply"))
                  /\ \A i \in Positions(messageList, p, "model") :
                       /\ messageList[i].id = ElId(p, "error")
                       /\ Contains(textContent(messageList[i].html),
                                   <<MarkedError.name, ": ", MarkedError.message>>))
  /\ [][ \A p \in Pids :
           pipelines[p].pc = "caught"
             => /\ ~InList(messageList, pipelines[p].loadingIndicator)
                /\ pipelines[p].settled = "resolved"
                /\ messageList' = messageList
                /\ pipelines'[p].pc = "render"
                /\ pipelines'[p].stage = "error" ]_vars

C19_Witness ==
  \E p \in UserPids :
    /\ pipelines[p].settled = "resolved"
    /\ ~pipelines[p].response.hasText
    /\ pipelines[p].pc = "done"
    /\ InList(messageList, ElId(p, "error"))
    /\ pipelines[0].settled = "resolved" /\ ~pipelines[0].response.hasText
    /\ pipelines[0].pc = "done"

====
